---- MODULE Spec2Model ----
(***************************************************************************)
(* bencode-minimal: the Value model, the recursive-descent Decoder with    *)
(* its allocation budget, the canonical Encoder, the typed projection      *)
(* layer (TryFromValue / Value::get) and Value::into_owned.                 *)
(*                                                                         *)
(* Bytes are the integers 0..255.  A Cow<[u8]> is a record                  *)
(* [owned, bytes]; a Value is a record tagged "Int" (field i), "Str"        *)
(* (field s, a Cow), "List" (field l, a sequence of Values) or "Dict"       *)
(* (field m, the BTreeMap: a sequence of entries [k, v] in iteration        *)
(* order).  An Option is [some |-> FALSE] or [some |-> TRUE, v |-> x].      *)
(* The machine integers i64 / u64 / usize are modelled with BITS bits      *)
(* instead of 64, all arithmetic and overflow checks kept.                  *)
(***************************************************************************)
EXTENDS Integers, Sequences, FiniteSets, TLC

\* ------------------------------------------------------------------ bounds
\* Width of the machine integers of the model (i64, u64 and usize have 64).
BITS == 8
\* Largest number of nodes (scalars and containers) of a tree under construction.
MaxNodes == 3
\* Largest number of nodes of a message the peer writes.
MaxMsgNodes == 4
\* Largest length of a hand-written input.
MaxInput == 5

RECURSIVE pow2(_)
pow2(n) == IF n = 0 THEN 1 ELSE 2 * pow2(n - 1)

I64_MAX == pow2(BITS - 1) - 1
I64_MIN == 0 - pow2(BITS - 1)
USIZE_MAX == pow2(BITS) - 1

\* ------------------------------------------------------------ byte literals
CH_i == 105
CH_l == 108
CH_d == 100
CH_e == 101
CH_colon == 58
CH_minus == 45
CH_0 == 48
CH_9 == 57

\* ------------------------------------------------------------------ options
None == [some |-> FALSE]
Some(x) == [some |-> TRUE, v |-> x]

\* ------------------------------------------------------------- value model
Borrowed(b) == [owned |-> FALSE, bytes |-> b]
Owned(b) == [owned |-> TRUE, bytes |-> b]

VInt(n) == [tag |-> "Int", i |-> n]
VStr(c) == [tag |-> "Str", s |-> c]
VList(xs) == [tag |-> "List", l |-> xs]
VDict(es) == [tag |-> "Dict", m |-> es]

\* <[u8] as Ord>::lt: byte-lexicographic order, a proper prefix first.
RECURSIVE slice_lt(_, _)
slice_lt(a, b) ==
    IF b = <<>> THEN FALSE
    ELSE IF a = <<>> THEN TRUE
    ELSE IF Head(a) # Head(b) THEN Head(a) < Head(b)
    ELSE slice_lt(Tail(a), Tail(b))

\* Cow<[u8]> compares by content, the ownership mode is not looked at.
cow_eq(a, b) == a.bytes = b.bytes
cow_lt(a, b) == slice_lt(a.bytes, b.bytes)

\* BTreeMap::new
BTreeMap_new == <<>>

\* BTreeMap::insert that reports no old value: a repeated key overwrites
\* unnoticed.
BTreeMap_insert_overwrite(m, key, value) ==
    IF \E j \in 1..Len(m) : cow_eq(m[j].k, key)
    THEN LET j == CHOOSE j \in 1..Len(m) : cow_eq(m[j].k, key)
         IN  [map |-> [m EXCEPT ![j] = [k |-> m[j].k, v |-> value]], old |-> None]
    ELSE LET n == Cardinality({j \in 1..Len(m) : cow_lt(m[j].k, key)})
         IN  [map |-> SubSeq(m, 1, n) \o <<[k |-> key, v |-> value]>>
                        \o SubSeq(m, n + 1, Len(m)),
              old |-> None]

\* BTreeMap::insert that keeps insertion order: a new key goes last.
BTreeMap_insert_unordered(m, key, value) ==
    IF \E j \in 1..Len(m) : cow_eq(m[j].k, key)
    THEN LET j == CHOOSE j \in 1..Len(m) : cow_eq(m[j].k, key)
         IN  [map |-> [m EXCEPT ![j] = [k |-> m[j].k, v |-> value]],
              old |-> Some(m[j].v)]
    ELSE [map |-> Append(m, [k |-> key, v |-> value]), old |-> None]

\* BTreeMap::insert: an equal key keeps its stored key, has its value replaced
\* and the old value returned; a new key goes to its place in key order.
BTreeMap_insert(m, key, value) ==
    IF \E j \in 1..Len(m) : cow_eq(m[j].k, key)
    THEN LET j == CHOOSE j \in 1..Len(m) : cow_eq(m[j].k, key)
         IN  [map |-> [m EXCEPT ![j] = [k |-> m[j].k, v |-> value]],
              old |-> Some(m[j].v)]
    ELSE LET n == Cardinality({j \in 1..Len(m) : cow_lt(m[j].k, key)})
         IN  [map |-> SubSeq(m, 1, n) \o <<[k |-> key, v |-> value]>>
                        \o SubSeq(m, n + 1, Len(m)),
              old |-> None]

\* BTreeMap::get with a byte-slice key.
BTreeMap_get(m, bytes) ==
    IF \E j \in 1..Len(m) : m[j].k.bytes = bytes
    THEN Some(m[CHOOSE j \in 1..Len(m) : m[j].k.bytes = bytes].v)
    ELSE None

\* #[derive(PartialEq)] on Value: same variant and equal payloads, strings and
\* keys by content.
RECURSIVE Value_eq(_, _)
Value_eq(a, b) ==
    /\ a.tag = b.tag
    /\ CASE a.tag = "Int" -> a.i = b.i
         [] a.tag = "Str" -> cow_eq(a.s, b.s)
         [] a.tag = "List" ->
                /\ Len(a.l) = Len(b.l)
                /\ \A j \in 1..Len(a.l) : Value_eq(a.l[j], b.l[j])
         [] a.tag = "Dict" ->
                /\ Len(a.m) = Len(b.m)
                /\ \A j \in 1..Len(a.m) :
                      /\ cow_eq(a.m[j].k, b.m[j].k)
                      /\ Value_eq(a.m[j].v, b.m[j].v)

\* ------------------------------------------------------------------ decoder
\* A Decoder is [buf, rem_allocs]; every take_* returns [ok, val, self] with
\* self the decoder as the call leaves it, also when it fails.
Decoder_new(buf, max_allocs) == [buf |-> buf, rem_allocs |-> max_allocs]

Ok(x, self) == [ok |-> TRUE, val |-> x, self |-> self]
Fail(self) == [ok |-> FALSE, self |-> self]

\* u8::is_ascii_digit, as the set of the bytes it accepts.
is_ascii_digit == CH_0..CH_9

take_u8_eq(self, c) ==
    IF self.buf # <<>> /\ Head(self.buf) = c
    THEN Ok(TRUE, [self EXCEPT !.buf = Tail(self.buf)])
    ELSE Fail(self)

\* f is the set of the bytes the closure accepts.
take_u8_if(self, f) ==
    IF self.buf # <<>> /\ Head(self.buf) \in f
    THEN Ok(Head(self.buf), [self EXCEPT !.buf = Tail(self.buf)])
    ELSE Fail(self)

take_u8_slice(self, n) ==
    IF n <= Len(self.buf)
    THEN Ok(SubSeq(self.buf, 1, n),
            [self EXCEPT !.buf = SubSeq(self.buf, n + 1, Len(self.buf))])
    ELSE Fail(self)

\* checked_mul / checked_add / checked_sub of a machine integer with range lo..hi.
checked_mul(a, b, lo, hi) == IF a * b \in lo..hi THEN Some(a * b) ELSE None
checked_add(a, b, lo, hi) == IF a + b \in lo..hi THEN Some(a + b) ELSE None
checked_sub(a, b, lo, hi) == IF a - b \in lo..hi THEN Some(a - b) ELSE None

\* The `?` operator on a Decoder method's result r: None is returned as it is,
\* Some goes on into F.
AndThen(r, F(_)) == IF r.ok THEN F(r) ELSE r

\* Option::map on a Decoder method's result.
Map(r, F(_)) == IF r.ok THEN Ok(F(r.val), r.self) ELSE r

\* A result bound to a name and used.
Bind(r, F(_)) == F(r)

\* The two checked steps of a digit loop, r * 10 + digit within lo..hi.
Accumulate(r, digit, lo, hi) ==
    Bind(checked_mul(r, 10, lo, hi), LAMBDA m :
        IF m.some THEN checked_add(m.v, digit, lo, hi) ELSE None)

\* The digit loop of take_i64 with accumulator r.
RECURSIVE take_i64_loop(_, _)
take_i64_loop(self, r) ==
    Bind(take_u8_if(self, is_ascii_digit), LAMBDA x :
        IF ~x.ok THEN Ok(r, x.self)
        ELSE Bind(Accumulate(r, x.val - CH_0, I64_MIN, I64_MAX), LAMBDA a :
                 IF a.some THEN take_i64_loop(x.self, a.v) ELSE Fail(x.self)))

\* take_i64 that refuses a zero followed by another digit and a negative zero.
take_i64_strict(self) ==
    Bind(take_u8_eq(self, CH_minus), LAMBDA s :
    AndThen(take_u8_if(s.self, is_ascii_digit), LAMBDA h :
    AndThen(take_i64_loop(h.self, h.val - CH_0), LAMBDA r :
        IF h.val = CH_0 /\ (s.ok \/ r.self # h.self) THEN Fail(r.self)
        ELSE Ok(IF s.ok THEN 0 - r.val ELSE r.val, r.self))))

take_i64(self) ==
    Bind(take_u8_eq(self, CH_minus), LAMBDA s :
    AndThen(take_u8_if(s.self, is_ascii_digit), LAMBDA h :
    AndThen(take_i64_loop(h.self, h.val - CH_0), LAMBDA r :
        Ok(IF s.ok THEN 0 - r.val ELSE r.val, r.self))))

\* The digit loop of take_usize with accumulator r.
RECURSIVE take_usize_loop(_, _)
take_usize_loop(self, r) ==
    Bind(take_u8_if(self, is_ascii_digit), LAMBDA x :
        IF ~x.ok THEN Ok(r, x.self)
        ELSE Bind(Accumulate(r, x.val - CH_0, 0, USIZE_MAX), LAMBDA a :
                 IF a.some THEN take_usize_loop(x.self, a.v) ELSE Fail(x.self)))

take_usize(self) ==
    AndThen(take_u8_if(self, is_ascii_digit), LAMBDA h :
        take_usize_loop(h.self, h.val - CH_0))

\* alloc that charges nothing.
Decoder_alloc_free(self, n) == Ok(TRUE, self)

Decoder_alloc(self, n) ==
    Bind(checked_sub(self.rem_allocs, n, 0, USIZE_MAX), LAMBDA r :
        IF r.some THEN Ok(TRUE, [self EXCEPT !.rem_allocs = r.v]) ELSE Fail(self))

take_int(self) ==
    AndThen(take_u8_eq(self, CH_i), LAMBDA a :
    AndThen(take_i64(a.self), LAMBDA n :
    AndThen(take_u8_eq(n.self, CH_e), LAMBDA e :
        Ok(n.val, e.self))))

take_str(self) ==
    AndThen(take_usize(self), LAMBDA len :
    AndThen(take_u8_eq(len.self, CH_colon), LAMBDA c :
    Map(take_u8_slice(c.self, len.val), Borrowed)))

RECURSIVE take_value(_), take_list_loop(_, _), take_dict_loop(_, _)

\* The while loop of take_list with the elements pushed so far.
take_list_loop(self, list) ==
    IF self.buf = <<>> THEN Fail(self)
    ELSE IF Head(self.buf) = CH_e THEN Ok(list, self)
    ELSE AndThen(Decoder_alloc(self, 1), LAMBDA a :
         AndThen(take_value(a.self), LAMBDA v :
             take_list_loop(v.self, Append(list, v.val))))

take_list(self) ==
    AndThen(take_u8_eq(self, CH_l), LAMBDA a :
    AndThen(take_list_loop(a.self, <<>>), LAMBDA r :
    AndThen(take_u8_eq(r.self, CH_e), LAMBDA e :
        Ok(r.val, e.self))))

\* The while-let loop of take_dict with the map filled so far: it ends when
\* take_str returns None, with the decoder as that failed call left it.
take_dict_loop(self, dict) ==
    Bind(take_str(self), LAMBDA key :
        IF ~key.ok THEN Ok(dict, key.self)
        ELSE AndThen(Decoder_alloc(key.self, 1), LAMBDA a :
             AndThen(take_value(a.self), LAMBDA v :
             Bind(BTreeMap_insert(dict, key.val, v.val), LAMBDA ins :
                 IF ins.old.some THEN Fail(v.self)
                 ELSE take_dict_loop(v.self, ins.map)))))

take_dict(self) ==
    AndThen(take_u8_eq(self, CH_d), LAMBDA a :
    AndThen(take_dict_loop(a.self, BTreeMap_new), LAMBDA r :
    AndThen(take_u8_eq(r.self, CH_e), LAMBDA e :
        Ok(r.val, e.self))))

take_value(self) ==
    IF self.buf = <<>> THEN Fail(self)
    ELSE IF Head(self.buf) = CH_i THEN Map(take_int(self), VInt)
    ELSE IF Head(self.buf) = CH_l THEN Map(take_list(self), VList)
    ELSE IF Head(self.buf) = CH_d THEN Map(take_dict(self), VDict)
    ELSE IF Head(self.buf) \in CH_0..CH_9 THEN Map(take_str(self), VStr)
    ELSE Fail(self)

\* Value::decode that rejects input with bytes left behind the value.
Value_decode_run_strict(buf, max_allocs) ==
    Bind(take_value(Decoder_new(buf, max_allocs)), LAMBDA r :
        IF r.ok /\ r.self.buf # <<>> THEN Fail(r.self) ELSE r)

\* Value::decode, with the decoder it leaves behind kept beside the Option.
Value_decode_run(buf, max_allocs) == take_value(Decoder_new(buf, max_allocs))

Value_decode(buf, max_allocs) ==
    Bind(Value_decode_run(buf, max_allocs), LAMBDA r :
        IF r.ok THEN Some(r.val) ELSE None)

\* ------------------------------------------------------------------ encoder
\* An Encoder is [buf], the Vec<u8> it writes to.
Encoder_new(buf) == [buf |-> <<>>]

Encoder_clear(self) == [self EXCEPT !.buf = <<>>]

raw_u8(self, n) == [self EXCEPT !.buf = Append(@, n)]

raw_slice(self, data) == [self EXCEPT !.buf = @ \o data]

\* Encoder::alloc: the buffer grown by len zero bytes, and where they start.
Encoder_alloc(self, len) ==
    [self |-> [self EXCEPT !.buf = @ \o [j \in 1..len |-> 0]],
     start |-> Len(self.buf)]

RECURSIVE ilog10(_)
ilog10(n) == IF n < 10 THEN 0 ELSE 1 + ilog10(n \div 10)

checked_ilog10(n) == IF n = 0 THEN None ELSE Some(ilog10(n))

\* for b in buf.iter_mut().rev(): the bytes lo..pos written from the last one.
RECURSIVE fill_rev(_, _, _, _)
fill_rev(buf, lo, pos, n) ==
    IF pos < lo THEN buf
    ELSE fill_rev([buf EXCEPT ![pos] = CH_0 + (n % 10)], lo, pos - 1, n \div 10)

\* Option::map(|i| i + 1).unwrap_or(1)
digits_len(lg) == IF lg.some THEN lg.v + 1 ELSE 1

\* The len bytes that alloc returned filled with the digits of n.
fill_alloc(a, len, n) ==
    [a.self EXCEPT !.buf = fill_rev(@, a.start + 1, a.start + len, n)]

raw_digits(self, len, n) == fill_alloc(Encoder_alloc(self, len), len, n)

raw_u64(self, n) == raw_digits(self, digits_len(checked_ilog10(n)), n)

raw_usize(self, n) == raw_digits(self, digits_len(checked_ilog10(n)), n)

unsigned_abs(n) == IF n < 0 THEN 0 - n ELSE n

\* The sign written for every n that is not positive, zero included.
raw_sign_nonpositive(self, n) == IF n <= 0 THEN raw_u8(self, CH_minus) ELSE self

\* if n < 0 { self.raw_u8(b'-') }
raw_sign(self, n) == IF n < 0 THEN raw_u8(self, CH_minus) ELSE self

Encoder_int(self, n) ==
    raw_u8(raw_u64(raw_sign(raw_u8(self, CH_i), n), unsigned_abs(n)), CH_e)

Encoder_str(self, s) ==
    raw_slice(raw_u8(raw_usize(self, Len(s)), CH_colon), s)

RECURSIVE Encoder_value(_, _), list_items(_, _, _), dict_items(_, _, _)

\* for v in l, from element j on.
list_items(self, l, j) ==
    IF j > Len(l) THEN self
    ELSE list_items(Encoder_value(self, l[j]), l, j + 1)

Encoder_list(self, l) == raw_u8(list_items(raw_u8(self, CH_l), l, 1), CH_e)

\* for (k, v) in d, from entry j of the iteration order on.
dict_items(self, d, j) ==
    IF j > Len(d) THEN self
    ELSE dict_items(Encoder_value(Encoder_str(self, d[j].k.bytes), d[j].v), d, j + 1)

Encoder_dict(self, d) == raw_u8(dict_items(raw_u8(self, CH_d), d, 1), CH_e)

Encoder_value(self, v) ==
    CASE v.tag = "Int" -> Encoder_int(self, v.i)
      [] v.tag = "Str" -> Encoder_str(self, v.s.bytes)
      [] v.tag = "List" -> Encoder_list(self, v.l)
      [] v.tag = "Dict" -> Encoder_dict(self, v.m)

\* Value::encode: a fresh Vec.
Value_encode(v) == Encoder_value(Encoder_new(<<>>), v).buf

\* Value::encode_into that does not clear: it writes behind the old content.
Value_encode_into_append(v, buf) == Encoder_value([buf |-> buf], v).buf

\* Value::encode_into: the caller's Vec with content buf.
Value_encode_into(v, buf) == Encoder_value(Encoder_clear(Encoder_new(buf)), v).buf

\* -------------------------------------------------------- BTreeMap::collect
\* slice::sort_by with the key order: stable, so each pair goes behind the pairs
\* already placed whose key is not greater.
RECURSIVE stable_sort(_)
stable_sort(pairs) ==
    IF pairs = <<>> THEN <<>>
    ELSE LET n == Len(pairs)
             p == pairs[n]
             rest == stable_sort(SubSeq(pairs, 1, n - 1))
             at == Cardinality({j \in 1..Len(rest) : ~cow_lt(p.k, rest[j].k)})
         IN  SubSeq(rest, 1, at) \o <<p>> \o SubSeq(rest, at + 1, Len(rest))

\* DedupSortedIter: of a run of pairs with equal keys only the last is kept.
RECURSIVE dedup_sorted(_)
dedup_sorted(pairs) ==
    IF Len(pairs) <= 1 THEN pairs
    ELSE IF cow_eq(pairs[1].k, pairs[2].k) THEN dedup_sorted(Tail(pairs))
    ELSE <<pairs[1]>> \o dedup_sorted(Tail(pairs))

\* <BTreeMap as FromIterator>::from_iter, what .collect() runs.
BTreeMap_from_iter(pairs) == dedup_sorted(stable_sort(pairs))

\* ------------------------------------------------------------ construction
\* IntoStr::into_str: an argument passed by reference is borrowed, one passed
\* by value (Vec<u8>, [u8; N], String) is owned.  x is [byval, bytes].
into_str(x) == IF x.byval THEN Owned(x.bytes) ELSE Borrowed(x.bytes)

int_macro(n) == VInt(n)
str_macro(x) == VStr(into_str(x))
list_macro(xs) == VList(xs)

\* dict!: pairs is the sequence of [k, v] as written, k an IntoStr argument.
dict_macro(pairs) ==
    IF pairs = <<>> THEN VDict(BTreeMap_new)
    ELSE VDict(BTreeMap_from_iter(
             [j \in 1..Len(pairs) |-> [k |-> into_str(pairs[j].k), v |-> pairs[j].v]]))

\* ------------------------------------------------------ ownership conversion
\* Cow::into_owned
cow_into_owned(c) == Owned(c.bytes)

RECURSIVE into_owned(_)
\* into_owned that moves the keys of a dictionary as they are.
into_owned_keys_kept(v) ==
    CASE v.tag = "Int" -> VInt(v.i)
      [] v.tag = "Str" -> VStr(Owned(cow_into_owned(v.s).bytes))
      [] v.tag = "List" -> VList([j \in 1..Len(v.l) |-> into_owned(v.l[j])])
      [] v.tag = "Dict" ->
            VDict(BTreeMap_from_iter(
                [j \in 1..Len(v.m) |-> [k |-> v.m[j].k, v |-> into_owned(v.m[j].v)]]))

into_owned(v) ==
    CASE v.tag = "Int" -> VInt(v.i)
      [] v.tag = "Str" -> VStr(Owned(cow_into_owned(v.s).bytes))
      [] v.tag = "List" -> VList([j \in 1..Len(v.l) |-> into_owned(v.l[j])])
      [] v.tag = "Dict" ->
            VDict(BTreeMap_from_iter(
                [j \in 1..Len(v.m) |->
                    [k |-> Owned(cow_into_owned(v.m[j].k).bytes),
                     v |-> into_owned(v.m[j].v)]]))

\* ---------------------------------------------------------- typed projection
\* A target type is [t |-> "i64"], [t |-> "slice"] (&[u8]), [t |-> "array",
\* n |-> N] ([u8; N]), [t |-> "list"], [t |-> "dict"], [t |-> "value"] or
\* [t |-> "tuple", a |-> A, b |-> B].
T_i64 == [t |-> "i64"]
T_slice == [t |-> "slice"]
T_array(n) == [t |-> "array", n |-> n]
T_list == [t |-> "list"]
T_dict == [t |-> "dict"]
T_value == [t |-> "value"]
T_tuple(A, B) == [t |-> "tuple", a |-> A, b |-> B]

\* A conversion to [u8; N] that takes the first N bytes of a longer string.
array_try_from_prefix(bytes, n) ==
    IF Len(bytes) >= n THEN Some(SubSeq(bytes, 1, n)) ELSE None

\* <[u8; N] as TryFrom<&[u8]>>::try_from(..).ok()
array_try_from(bytes, n) == IF Len(bytes) = n THEN Some(bytes) ELSE None

\* Option::zip
zip(a, b) == IF a.some /\ b.some THEN Some(<<a.v, b.v>>) ELSE None

\* TryFromValue::try_from for the target type T.
RECURSIVE try_from(_, _)
try_from(T, value) ==
    CASE T.t = "i64" -> IF value.tag = "Int" THEN Some(value.i) ELSE None
      [] T.t = "slice" -> IF value.tag = "Str" THEN Some(value.s.bytes) ELSE None
      [] T.t = "array" ->
            IF value.tag = "Str" THEN array_try_from(value.s.bytes, T.n) ELSE None
      [] T.t = "tuple" ->
            IF value.tag = "List"
            THEN IF Len(value.l) < 1 THEN None
                 ELSE IF Len(value.l) < 2 THEN None
                 ELSE zip(try_from(T.a, value.l[1]), try_from(T.b, value.l[2]))
            ELSE None
      [] T.t = "list" -> IF value.tag = "List" THEN Some(value.l) ELSE None
      [] T.t = "dict" -> IF value.tag = "Dict" THEN Some(value.m) ELSE None
      [] T.t = "value" -> Some(value)

\* Value::try_into
try_into(self, T) == try_from(T, self)

\* Value::get::<T>(key), key the bytes of the &'static str.
Value_get(self, key, T) ==
    LET x == try_into(self, T_dict) IN
    IF ~x.some THEN None
    ELSE LET y == BTreeMap_get(x.v, key) IN
         IF ~y.some THEN None
         ELSE try_into(y.v, T)

\* ------------------------------------------------------------------- state
VARIABLES
    val,     \* the caller's Value: None before the first macro, then Some(value)
    vec,     \* the caller's reusable Vec<u8>, the target of encode_into
    ret,     \* the last call: [op, its arguments, out]
    msg,     \* the peer's message as it wrote it: None, then Some(tree), the
             \* entries of a dictionary in the order written
    input,   \* the bytes received, the buffer handed to Value::decode
    dec      \* the Decoder of a call of Value::decode in progress: Idle, or its
             \* fields, the calls of take_list and take_dict on the call stack
             \* and the place it is at

vars == <<val, vec, ret, msg, input, dec>>

\* No call of Value::decode in progress.
Idle == [pc |-> "idle"]

\* ------------------------------------------------------------ input domains
IntVals == {0, -1, I64_MAX, I64_MIN}

TenBytes == <<104, 101, 108, 108, 111, 119, 111, 114, 108, 100>>

StrArgs == {[byval |-> FALSE, bytes |-> <<>>],
            [byval |-> TRUE, bytes |-> <<97>>],
            [byval |-> FALSE, bytes |-> TenBytes]}

KeyArgs == {[byval |-> FALSE, bytes |-> <<97>>],
            [byval |-> TRUE, bytes |-> <<98>>]}

\* The scalars written beside the value built so far in a list! or dict!.
SibVals == {int_macro(-1), str_macro([byval |-> TRUE, bytes |-> <<98>>])}

\* The place of the value built so far among the arguments of a macro.
IT == [tag |-> "It"]

Keys == {<<97>>, <<98>>, <<99>>}

Types == {T_i64, T_slice, T_array(1), T_array(9), T_array(10), T_list, T_dict,
          T_value, T_tuple(T_i64, T_slice)}

\* The allocation budgets tried: up to one per node below the root.
Budgets == 0..(MaxNodes - 1)

SeqsUpTo(S, n) == UNION {[1..k -> S] : k \in 0..n}

\* Nodes of a tree: every scalar and every container counts one.
RECURSIVE Nodes(_)
RECURSIVE SumNodes(_, _)
SumNodes(xs, j) == IF j > Len(xs) THEN 0 ELSE Nodes(xs[j]) + SumNodes(xs, j + 1)
Nodes(v) ==
    CASE v.tag = "List" -> 1 + SumNodes(v.l, 1)
      [] v.tag = "Dict" -> 1 + SumNodes([j \in 1..Len(v.m) |-> v.m[j].v], 1)
      [] OTHER -> 1

Held(o) == IF o.some THEN Nodes(o.v) ELSE 0

\* The argument lists a macro can be given: the value built so far (moved in,
\* exactly once, when there is one) and scalars, within MaxNodes.
ArgsOk(args, o) ==
    /\ Cardinality({j \in 1..Len(args) : args[j] = IT}) = (IF o.some THEN 1 ELSE 0)
    /\ 1 + Held(o) + Len(args) - (IF o.some THEN 1 ELSE 0) <= MaxNodes

Resolve(a, o) == IF a = IT THEN o.v ELSE a

Building == ret.op \in {"none", "int!", "str!", "list!", "dict!", "encode_into"}

\* ---------------------------------------------------- the caller's program
Init ==
    /\ val = None
    /\ vec = <<>>
    /\ ret = [op |-> "none"]
    /\ msg = None
    /\ input = <<>>
    /\ dec = Idle

\* int!(n)
IntMacro(n) ==
    /\ Building /\ ~val.some
    /\ val' = Some(int_macro(n))
    /\ ret' = [op |-> "int!"]
    /\ UNCHANGED <<dec, vec, msg, input>>

\* str!(x)
StrMacro(x) ==
    /\ Building /\ ~val.some
    /\ val' = Some(str_macro(x))
    /\ ret' = [op |-> "str!"]
    /\ UNCHANGED <<dec, vec, msg, input>>

\* list![args]
ListMacro(args) ==
    /\ Building /\ ArgsOk(args, val)
    /\ val' = Some(list_macro([j \in 1..Len(args) |-> Resolve(args[j], val)]))
    /\ ret' = [op |-> "list!"]
    /\ UNCHANGED <<dec, vec, msg, input>>

\* dict!{k => v, ...}, pairs the [k, v] as written
DictMacro(pairs) ==
    LET args == [j \in 1..Len(pairs) |-> pairs[j].v]
        given == [j \in 1..Len(pairs) |->
                     [k |-> pairs[j].k, v |-> Resolve(pairs[j].v, val)]]
    IN  /\ Building /\ ArgsOk(args, val)
        /\ val' = Some(dict_macro(given))
        /\ ret' = [op |-> "dict!", pairs |-> given]
        /\ UNCHANGED <<dec, vec, msg, input>>

\* let bytes = value.encode()
Encode ==
    /\ val.some
    /\ ret' = [op |-> "encode", arg |-> val.v, out |-> Value_encode(val.v)]
    /\ UNCHANGED <<dec, val, vec, msg, input>>

\* value.encode_into(&mut vec)
EncodeInto ==
    /\ val.some
    /\ vec' = Value_encode_into(val.v, vec)
    /\ ret' = [op |-> "encode_into", arg |-> val.v, before |-> vec]
    /\ UNCHANGED <<dec, val, msg, input>>

\* Value::decode(&vec, max_allocs)
DecodeVec(max_allocs) ==
    /\ val.some /\ vec # <<>>
    /\ ret' = [op |-> "decode", buf |-> vec, max_allocs |-> max_allocs,
               out |-> Value_decode(vec, max_allocs)]
    /\ UNCHANGED <<dec, val, vec, msg, input>>

\* let value = value.into_owned()
IntoOwned ==
    /\ val.some
    /\ val' = Some(into_owned(val.v))
    /\ ret' = [op |-> "into_owned", arg |-> val.v]
    /\ UNCHANGED <<dec, vec, msg, input>>

\* value.get::<T>(key)
Get(key, T) ==
    /\ val.some
    /\ ret' = [op |-> "get", arg |-> val.v, key |-> key, ty |-> T,
               out |-> Value_get(val.v, key, T)]
    /\ UNCHANGED <<dec, val, vec, msg, input>>

Next ==
    \/ \E n \in IntVals : IntMacro(n)
    \/ \E x \in StrArgs : StrMacro(x)
    \/ \E args \in SeqsUpTo(SibVals \cup {IT}, MaxNodes - 1) : ListMacro(args)
    \/ \E pairs \in SeqsUpTo([k : KeyArgs, v : SibVals \cup {IT}], MaxNodes - 1) :
          DictMacro(pairs)
    \/ Encode
    \/ EncodeInto
    \/ \E b \in Budgets : DecodeVec(b)
    \/ IntoOwned

Spec == Init /\ [][Next]_vars

\* The caller's program that builds a value and projects fields out of it.
NextGet ==
    \/ \E n \in IntVals : IntMacro(n)
    \/ \E x \in StrArgs : StrMacro(x)
    \/ \E args \in SeqsUpTo(SibVals \cup {IT}, MaxNodes - 1) : ListMacro(args)
    \/ \E pairs \in SeqsUpTo([k : KeyArgs, v : SibVals \cup {IT}], MaxNodes - 1) :
          DictMacro(pairs)
    \/ \E key \in Keys, T \in Types : Get(key, T)

SpecGet == Init /\ [][NextGet]_vars

\* ------------------------------------------------------- the peer's message
\* The peer writes the four productions itself, the entries of a dictionary in
\* the order it chose and with the keys it chose, repeated ones included.
PeerInts == {0, I64_MIN}
PeerStrs == {<<97>>}
PeerKeys == {<<97, 98>>, <<97>>}
PeerSibs == {VInt(7)}
TrailBytes == {CH_e, CH_0}
MsgBudgets == 0..(MaxMsgNodes - 1)

MsgArgsOk(args, o) ==
    /\ Cardinality({j \in 1..Len(args) : args[j] = IT}) = (IF o.some THEN 1 ELSE 0)
    /\ 1 + Held(o) + Len(args) - (IF o.some THEN 1 ELSE 0) <= MaxMsgNodes

\* The bytes of a message tree: `i` n `e`, len `:` bytes, `l` items `e`,
\* `d` (key value)* `e` in the order written.
Wire(t) == Encoder_value(Encoder_new(<<>>), t).buf

Writing == ret.op \in {"none", "write"}

PeerInt(n) ==
    /\ Writing /\ ~msg.some
    /\ msg' = Some(VInt(n))
    /\ ret' = [op |-> "write"]
    /\ UNCHANGED <<dec, val, vec, input>>

PeerStr(b) ==
    /\ Writing /\ ~msg.some
    /\ msg' = Some(VStr(Borrowed(b)))
    /\ ret' = [op |-> "write"]
    /\ UNCHANGED <<dec, val, vec, input>>

PeerList(args) ==
    /\ Writing /\ MsgArgsOk(args, msg)
    /\ msg' = Some(VList([j \in 1..Len(args) |-> Resolve(args[j], msg)]))
    /\ ret' = [op |-> "write"]
    /\ UNCHANGED <<dec, val, vec, input>>

PeerDict(pairs) ==
    /\ Writing /\ MsgArgsOk([j \in 1..Len(pairs) |-> pairs[j].v], msg)
    /\ msg' = Some(VDict([j \in 1..Len(pairs) |->
                  [k |-> Borrowed(pairs[j].k), v |-> Resolve(pairs[j].v, msg)]]))
    /\ ret' = [op |-> "write"]
    /\ UNCHANGED <<dec, val, vec, input>>

\* The message arrives.
Send ==
    /\ Writing /\ msg.some
    /\ input' = Wire(msg.v)
    /\ ret' = [op |-> "send"]
    /\ UNCHANGED <<dec, val, vec, msg>>

\* One more byte arrives behind the message.
Trail(c) ==
    /\ ret.op = "send"
    /\ input' = Append(input, c)
    /\ ret' = [op |-> "trail"]
    /\ UNCHANGED <<dec, val, vec, msg>>

\* Value::decode(&input, max_allocs)
Decode(max_allocs) ==
    /\ ret.op \in {"send", "trail", "bytes", "decode"}
    /\ ret' = [op |-> "decode", buf |-> input, max_allocs |-> max_allocs,
               out |-> Value_decode(input, max_allocs)]
    /\ UNCHANGED <<dec, val, vec, msg, input>>

NextWire ==
    \/ \E n \in PeerInts : PeerInt(n)
    \/ \E b \in PeerStrs : PeerStr(b)
    \/ \E args \in SeqsUpTo(PeerSibs \cup {IT}, MaxMsgNodes - 1) : PeerList(args)
    \/ \E pairs \in SeqsUpTo([k : PeerKeys, v : PeerSibs \cup {IT}], MaxMsgNodes - 1) :
          PeerDict(pairs)
    \/ Send
    \/ \E c \in TrailBytes : Trail(c)
    \/ \E b \in MsgBudgets : Decode(b)

SpecWire == Init /\ [][NextWire]_vars

\* ------------------------------------------------------------ arbitrary bytes
\* Input that is no message of any peer: any bytes over the alphabet.
Alphabet == {CH_i, CH_l, CH_d, CH_e, CH_0, CH_0 + 1, CH_colon, CH_minus}

Byte(c) ==
    /\ ret.op \in {"none", "bytes"} /\ dec = Idle
    /\ Len(input) < MaxInput
    /\ input' = Append(input, c)
    /\ ret' = [op |-> "bytes"]
    /\ UNCHANGED <<dec, val, vec, msg>>

NextBytes ==
    \/ \E c \in Alphabet : Byte(c)
    \/ \E b \in MsgBudgets : Decode(b)

SpecBytes == Init /\ [][NextBytes]_vars

\* ------------------------------------------------------------------ scalars
\* The caller's program that encodes one scalar: every integer of the width,
\* and byte strings whose lengths have one, two and three digits.
StrLens == {0, 1, 9, 10, 11, 99, 100, 101}

StrFill == {0, CH_colon, CH_0, USIZE_MAX}

ScalarStrArgs ==
    {[byval |-> o, bytes |-> [j \in 1..n |-> c]] :
        o \in BOOLEAN, n \in StrLens, c \in StrFill}

NextScalar ==
    \/ \E n \in I64_MIN..I64_MAX : IntMacro(n)
    \/ \E x \in ScalarStrArgs : StrMacro(x)
    \/ Encode

SpecScalar == Init /\ [][NextScalar]_vars

\* ----------------------------------------------------------------- integers
\* A buffer handed to Decoder::take_int: something in front, signs, digits,
\* something between the digits and the end, and an end.
MaxDigits == 3

IntHeads == {<<>>, <<CH_i>>, <<CH_l>>}

IntSigns == {<<>>, <<CH_minus>>, <<CH_minus, CH_minus>>}

IntDigits == {CH_0, CH_0 + 1, CH_0 + 2, CH_0 + 5, CH_0 + 7, CH_0 + 8}

IntMids == {<<>>, <<CH_minus>>}

IntTails == {<<>>, <<CH_e>>, <<CH_i>>, <<CH_e, CH_0>>, <<CH_e, CH_e>>}

IntInputs ==
    {h \o s \o d \o m \o t :
        h \in IntHeads, s \in IntSigns, d \in SeqsUpTo(IntDigits, MaxDigits),
        m \in IntMids, t \in IntTails}

InitInt ==
    /\ val = None
    /\ vec = <<>>
    /\ ret = [op |-> "none"]
    /\ msg = None
    /\ input \in IntInputs
    /\ dec = Idle

\* Decoder::new(&input, 0).take_int(), rest the buffer left in the decoder
TakeInt ==
    /\ ret.op = "none"
    /\ ret' = Bind(take_int(Decoder_new(input, 0)), LAMBDA r :
                  [op |-> "take_int", buf |-> input,
                   out |-> IF r.ok THEN Some(r.val) ELSE None,
                   rest |-> r.self.buf])
    /\ UNCHANGED <<dec, val, vec, msg, input>>

NextInt == TakeInt

SpecInt == InitInt /\ [][NextInt]_vars

\* ------------------------------------------------- the decoder step by step
\* Value::decode as it runs: one step is one call of take_value up to the
\* point where it returns or enters the loop of take_list or take_dict, or one
\* evaluation of such a loop's condition up to the next call of take_value.
\* A frame of dec.stack is a call of take_list or take_dict that has not
\* returned, with its local list or dict, the key taken for the entry being
\* decoded, and mark, the length of self.buf when the condition of its loop
\* was evaluated last (at first, when the call began).
MaxRunAllocs == 2

RunAlphabet == {CH_i, CH_l, CH_d, CH_e, CH_0, CH_colon}

\* The Decoder struct of the call in progress.
Self(d) == [buf |-> d.buf, rem_allocs |-> d.rem_allocs]

\* None returned through every ? up to Value::decode, the decoder left as self.
Failed(d, self) ==
    [d EXCEPT !.pc = "done", !.buf = self.buf, !.rem_allocs = self.rem_allocs,
              !.stack = <<>>, !.out = None]

\* The innermost call of take_list or take_dict.
Top(d) == d.stack[Len(d.stack)]

\* take_list or take_dict has taken its first byte and stands before its loop.
Entered(d, self, frame) ==
    [d EXCEPT !.pc = "loop", !.buf = self.buf, !.stack = Append(@, frame)]

\* The stack without its innermost call.
Popped(d) == [d EXCEPT !.stack = SubSeq(@, 1, Len(@) - 1)]

\* Back at the loop of the innermost call with its frame updated.
Looped(d, self, frame) ==
    [d EXCEPT !.pc = "loop", !.buf = self.buf, !.rem_allocs = self.rem_allocs,
              !.stack[Len(d.stack)] = frame]

\* dict.insert(key, value) of the innermost take_dict, a duplicate refused.
Inserted(d, self, ins) ==
    IF ins.old.some THEN Failed(d, self)
    ELSE Looped(d, self, [kind |-> "dict", dict |-> ins.map, mark |-> Top(d).mark])

\* take_value returns Some(v) to its caller: Value::decode, the push of
\* take_list or the insert of take_dict.
Returned(d, self, v) ==
    IF d.stack = <<>>
    THEN [d EXCEPT !.pc = "done", !.buf = self.buf,
                   !.rem_allocs = self.rem_allocs, !.out = Some(v)]
    ELSE IF Top(d).kind = "list"
    THEN Looped(d, self, [Top(d) EXCEPT !.list = Append(@, v)])
    ELSE Inserted(d, self, BTreeMap_insert(Top(d).dict, Top(d).key, v))

\* The result r of take_int or take_str handed on by take_value.
Scalar(d, r, V(_)) ==
    IF r.ok THEN Returned(d, r.self, V(r.val)) ELSE Failed(d, r.self)

\* self.alloc(1)? and the call of take_value of a loop body.
Charged(d, a, frame) ==
    IF a.ok
    THEN [d EXCEPT !.pc = "value", !.buf = a.self.buf,
                   !.rem_allocs = a.self.rem_allocs,
                   !.stack[Len(d.stack)] = frame]
    ELSE Failed(d, a.self)

\* self.take_u8_eq(b'e')? behind a loop and the return of the container.
Closed(d, e, v) ==
    IF e.ok THEN Returned(Popped(d), e.self, v) ELSE Failed(d, e.self)

\* Value::decode(buf, max_allocs): Decoder::new and the call of take_value
Start(max_allocs) ==
    /\ dec = Idle
    /\ ret.op \in {"none", "bytes"}
    /\ dec' = [pc |-> "value", buf |-> input, rem_allocs |-> max_allocs,
               stack |-> <<>>, out |-> None, max_allocs |-> max_allocs]
    /\ UNCHANGED <<val, vec, ret, msg, input>>

\* take_value: the match on the first byte
TakeValue ==
    /\ dec.pc = "value"
    /\ dec' =
         IF dec.buf = <<>> THEN Failed(dec, Self(dec))
         ELSE IF Head(dec.buf) = CH_i THEN Scalar(dec, take_int(Self(dec)), VInt)
         ELSE IF Head(dec.buf) = CH_l
         THEN Entered(dec, take_u8_eq(Self(dec), CH_l).self,
                      [kind |-> "list", list |-> <<>>, mark |-> Len(dec.buf)])
         ELSE IF Head(dec.buf) = CH_d
         THEN Entered(dec, take_u8_eq(Self(dec), CH_d).self,
                      [kind |-> "dict", dict |-> BTreeMap_new, mark |-> Len(dec.buf)])
         ELSE IF Head(dec.buf) \in CH_0..CH_9
         THEN Scalar(dec, take_str(Self(dec)), VStr)
         ELSE Failed(dec, Self(dec))
    /\ UNCHANGED <<val, vec, ret, msg, input>>

\* take_list: while self.buf.get(0)? != &b'e' { self.alloc(1)?; ... }
ListLoop ==
    /\ dec.pc = "loop" /\ Top(dec).kind = "list"
    /\ dec' =
         IF dec.buf = <<>> THEN Failed(dec, Self(dec))
         ELSE IF Head(dec.buf) = CH_e
         THEN Closed(dec, take_u8_eq(Self(dec), CH_e), VList(Top(dec).list))
         ELSE Charged(dec, Decoder_alloc(Self(dec), 1),
                      [Top(dec) EXCEPT !.mark = Len(dec.buf)])
    /\ UNCHANGED <<val, vec, ret, msg, input>>

\* take_dict: while let Some(key) = self.take_str() { self.alloc(1)?; ... }
DictLoop ==
    /\ dec.pc = "loop" /\ Top(dec).kind = "dict"
    /\ dec' =
         Bind(take_str(Self(dec)), LAMBDA key :
             IF ~key.ok
             THEN Closed(dec, take_u8_eq(key.self, CH_e), VDict(Top(dec).dict))
             ELSE Charged(dec, Decoder_alloc(key.self, 1),
                          [kind |-> "dict", dict |-> Top(dec).dict,
                           key |-> key.val, mark |-> Len(dec.buf)]))
    /\ UNCHANGED <<val, vec, ret, msg, input>>

NextRun ==
    \/ \E c \in RunAlphabet : Byte(c)
    \/ \E a \in 0..MaxRunAllocs : Start(a)
    \/ TakeValue
    \/ ListLoop
    \/ DictLoop

SpecRun == Init /\ [][NextRun]_vars

\* ===================================================================== claims
\* Helpers of the properties below.

\* List elements plus dictionary entries of a tree, over all nesting levels.
RECURSIVE Entries(_)
RECURSIVE SumEntries(_, _)
SumEntries(xs, j) == IF j > Len(xs) THEN 0 ELSE Entries(xs[j]) + SumEntries(xs, j + 1)
Entries(v) ==
    CASE v.tag = "List" -> Len(v.l) + SumEntries(v.l, 1)
      [] v.tag = "Dict" -> Len(v.m) + SumEntries([j \in 1..Len(v.m) |-> v.m[j].v], 1)
      [] OTHER -> 0

\* a before b in byte-lexicographic order, stated without recursion.
LexLess(a, b) ==
    \E n \in 0..Len(a) :
        /\ n <= Len(b)
        /\ \A j \in 1..n : a[j] = b[j]
        /\ \/ n = Len(a) /\ n < Len(b)
           \/ n < Len(a) /\ n < Len(b) /\ a[n + 1] < b[n + 1]

\* Some dictionary of the tree, at any depth, has two entries with the same
\* key bytes.
RECURSIVE HasDup(_)
HasDup(v) ==
    CASE v.tag = "List" -> \E j \in 1..Len(v.l) : HasDup(v.l[j])
      [] v.tag = "Dict" ->
            \/ \E j, k \in 1..Len(v.m) : j # k /\ v.m[j].k.bytes = v.m[k].k.bytes
            \/ \E j \in 1..Len(v.m) : HasDup(v.m[j].v)
      [] OTHER -> FALSE

\* Every dictionary of the tree, at any depth, has its entries in strictly
\* ascending key order.
RECURSIVE Ascending(_)
Ascending(v) ==
    CASE v.tag = "List" -> \A j \in 1..Len(v.l) : Ascending(v.l[j])
      [] v.tag = "Dict" ->
            /\ \A j \in 1..(Len(v.m) - 1) : LexLess(v.m[j].k.bytes, v.m[j + 1].k.bytes)
            /\ \A j \in 1..Len(v.m) : Ascending(v.m[j].v)
      [] OTHER -> TRUE

\* The tree with the entries of every dictionary (its keys distinct) put in
\* ascending key order.
RECURSIVE Sorted(_)
Sorted(v) ==
    CASE v.tag = "List" -> VList([j \in 1..Len(v.l) |-> Sorted(v.l[j])])
      [] v.tag = "Dict" ->
            LET rank(j) == 1 + Cardinality({k \in 1..Len(v.m) :
                                  LexLess(v.m[k].k.bytes, v.m[j].k.bytes)})
                at(r) == CHOOSE j \in 1..Len(v.m) : rank(j) = r
            IN  VDict([r \in 1..Len(v.m) |->
                          [k |-> v.m[at(r)].k, v |-> Sorted(v.m[at(r)].v)]])
      [] OTHER -> v

\* Every Str and every dictionary key of the tree is Owned.
RECURSIVE AllOwned(_)
AllOwned(v) ==
    CASE v.tag = "Str" -> v.s.owned
      [] v.tag = "List" -> \A j \in 1..Len(v.l) : AllOwned(v.l[j])
      [] v.tag = "Dict" -> \A j \in 1..Len(v.m) : v.m[j].k.owned /\ AllOwned(v.m[j].v)
      [] OTHER -> TRUE

\* Some Int node of the tree holds n.
RECURSIVE HasInt(_, _)
HasInt(v, n) ==
    CASE v.tag = "Int" -> v.i = n
      [] v.tag = "List" -> \E j \in 1..Len(v.l) : HasInt(v.l[j], n)
      [] v.tag = "Dict" -> \E j \in 1..Len(v.m) : HasInt(v.m[j].v, n)
      [] OTHER -> FALSE

\* The last call decoded the encoding of the caller's value.
DecodedOwn == ret.op = "decode" /\ ret.buf = Value_encode(val.v)

\* C1: round trip: decoding the encoding of any tree, with a budget of at least
\* its number of list elements plus dictionary entries, returns Some tree equal
\* to it by content.
C1_RoundTrip ==
    (DecodedOwn /\ ret.max_allocs >= Entries(val.v))
        => (ret.out.some /\ Value_eq(ret.out.v, val.v))

\* The last call decoded exactly the peer's message, nothing behind it.
DecodedMsg == ret.op = "decode" /\ ret.buf = Wire(msg.v)

\* C2: the budget is charged one unit per list element and per dictionary
\* entry: a well-formed encoding of a tree with N of them decodes exactly with
\* the budgets >= N (scalars and empty containers with budget 0).
C2_Budget ==
    (DecodedMsg /\ ~HasDup(msg.v))
        => (ret.out.some <=> ret.max_allocs >= Entries(msg.v))

\* The four productions of the wire format, as a recogniser: G_value(b) is
\* [ok, rest], ok when a prefix of b derives from a value and rest what follows
\* that prefix.
IsDigit(c) == c \in 48..57

RECURSIVE G_digits(_, _)
G_digits(b, n) ==
    IF b # <<>> /\ IsDigit(Head(b)) THEN G_digits(Tail(b), 10 * n + (Head(b) - 48))
    ELSE [n |-> n, rest |-> b]

G_no == [ok |-> FALSE, rest |-> <<>>]

G_int(b) ==
    LET c == IF Tail(b) # <<>> /\ Head(Tail(b)) = 45 THEN Tail(Tail(b)) ELSE Tail(b)
        d == G_digits(c, 0)
    IN  IF c # <<>> /\ IsDigit(Head(c)) /\ d.rest # <<>> /\ Head(d.rest) = 101
        THEN [ok |-> TRUE, rest |-> Tail(d.rest)]
        ELSE G_no

G_str(b) ==
    LET d == G_digits(b, 0) IN
    IF b # <<>> /\ IsDigit(Head(b)) /\ d.rest # <<>> /\ Head(d.rest) = 58
       /\ d.n <= Len(d.rest) - 1
    THEN [ok |-> TRUE, rest |-> SubSeq(d.rest, d.n + 2, Len(d.rest))]
    ELSE G_no

RECURSIVE G_value(_), G_items(_), G_pairs(_)
\* value* `e`
G_items(b) ==
    IF b = <<>> THEN G_no
    ELSE IF Head(b) = 101 THEN [ok |-> TRUE, rest |-> Tail(b)]
    ELSE LET v == G_value(b) IN IF v.ok THEN G_items(v.rest) ELSE G_no

\* (byte-string value)* `e`
G_pairs(b) ==
    IF b = <<>> THEN G_no
    ELSE IF Head(b) = 101 THEN [ok |-> TRUE, rest |-> Tail(b)]
    ELSE LET k == G_str(b) IN
         IF ~k.ok THEN G_no
         ELSE LET v == G_value(k.rest) IN IF v.ok THEN G_pairs(v.rest) ELSE G_no

G_value(b) ==
    IF b = <<>> THEN G_no
    ELSE IF Head(b) = 105 THEN G_int(b)
    ELSE IF Head(b) = 108 THEN G_items(Tail(b))
    ELSE IF Head(b) = 100 THEN G_pairs(Tail(b))
    ELSE IF IsDigit(Head(b)) THEN G_str(b)
    ELSE G_no

\* C3: decode returns a value only when a prefix of the input derives from the
\* grammar; a dictionary whose key position holds digits not followed by `:`
\* and that many bytes is rejected.
C3_Grammar == (ret.op = "decode" /\ ret.out.some) => G_value(ret.buf).ok

\* C4: an input with a dictionary, at any depth, that has two entries with the
\* same key bytes decodes to None, whatever the budget.
C4_Duplicate == (ret.op = "decode" /\ HasDup(msg.v)) => ~ret.out.some

\* A decode, with budget to spare, of a message whose duplicate keys sit in a
\* nested dictionary and map to different values.
C4_Witness ==
    /\ ret.op = "decode" /\ ret.max_allocs >= Entries(msg.v) /\ ~ret.out.some
    /\ ~HasInt(msg.v, I64_MIN)
    /\ msg.v.tag = "List" /\ Len(msg.v.l) = 1
    /\ LET d == msg.v.l[1] IN
          /\ d.tag = "Dict" /\ Len(d.m) = 2
          /\ d.m[1].k.bytes = d.m[2].k.bytes /\ d.m[1].v # d.m[2].v

\* C5: the order of the entries in the input does not matter: the message and
\* the message with every dictionary sorted decode alike, and the encoding of
\* the decoded tree has every dictionary in strictly ascending key order: it is
\* the sorted message.
C5_Canonical ==
    (ret.op = "decode" /\ ~HasDup(msg.v)) =>
        LET trail == SubSeq(ret.buf, Len(Wire(msg.v)) + 1, Len(ret.buf))
            sorted == Value_decode(Wire(Sorted(msg.v)) \o trail, ret.max_allocs)
        IN  /\ ret.out.some = sorted.some
            /\ ret.out.some =>
                  /\ Value_eq(ret.out.v, sorted.v)
                  /\ Ascending(ret.out.v)
                  /\ Value_encode(ret.out.v) = Wire(Sorted(msg.v))

\* A successful decode of a dictionary written with its two distinct keys in
\* descending order.
C5_Witness ==
    /\ ret.op = "decode" /\ ret.out.some
    /\ msg.v.tag = "Dict" /\ Len(msg.v.m) = 2
    /\ LexLess(msg.v.m[2].k.bytes, msg.v.m[1].k.bytes)

\* The bytes put behind the consumed prefix.
Tails == SeqsUpTo({CH_e, CH_0, CH_colon, CH_i}, 2)

GivenTwice(pairs) ==
    \E j, k \in 1..Len(pairs) : j # k /\ pairs[j].k.bytes = pairs[k].k.bytes

\* C6: no Dict holds a key twice, and dict! given the same key twice fails
\* instead of returning a Dict in which one of the two values is dropped.
C6_NoSilentOverwrite ==
    /\ val.some => ~HasDup(val.v)
    /\ (ret.op = "dict!" /\ GivenTwice(ret.pairs)) => ~val.some

\* C8: encode_into leaves exactly the encoding of its tree in the buffer,
\* whatever the buffer held, and a second call with the same tree leaves the
\* same bytes.
C8_EncodeInto ==
    ret.op = "encode_into" =>
        /\ vec = Value_encode(ret.arg)
        /\ Value_encode_into(ret.arg, vec) = vec

\* encode_into on a buffer that held the encoding of another tree.
C8_Witness ==
    /\ ret.op = "encode_into"
    /\ ret.before # <<>> /\ ret.before # vec
    /\ ret.arg.tag = "Dict" /\ Len(ret.arg.m) >= 1

\* The tree without its ownership modes: every Cow replaced by its bytes.
RECURSIVE Content(_)
Content(v) ==
    CASE v.tag = "Str" -> [tag |-> "Str", s |-> v.s.bytes]
      [] v.tag = "List" -> VList([j \in 1..Len(v.l) |-> Content(v.l[j])])
      [] v.tag = "Dict" ->
            VDict([j \in 1..Len(v.m) |-> [k |-> v.m[j].k.bytes, v |-> Content(v.m[j].v)]])
      [] OTHER -> v

\* C10: into_owned returns a tree whose every Str and key is Owned, equal to
\* its argument by content, with the same encoding.
C10_IntoOwned ==
    ret.op = "into_owned" =>
        /\ AllOwned(val.v)
        /\ Value_eq(val.v, ret.arg)
        /\ Content(val.v) = Content(ret.arg)
        /\ Value_encode(val.v) = Value_encode(ret.arg)

\* into_owned of a dictionary with a borrowed key and a borrowed Str below it.
C10_Witness ==
    /\ ret.op = "into_owned"
    /\ ret.arg.tag = "Dict" /\ Len(ret.arg.m) >= 1
    /\ \E j \in 1..Len(ret.arg.m) :
          /\ ~ret.arg.m[j].k.owned
          /\ ~AllOwned(ret.arg.m[j].v)

\* The value stored under the key of the last get, when its argument is a
\* dictionary that has the key.
Present == ret.arg.tag = "Dict" /\ \E j \in 1..Len(ret.arg.m) : ret.arg.m[j].k.bytes = ret.key
Stored == ret.arg.m[CHOOSE j \in 1..Len(ret.arg.m) : ret.arg.m[j].k.bytes = ret.key].v

\* C9: get::<T>(key) is Some(x) exactly when the value is a Dict that has the
\* key and the stored value converts to T, x the conversion's result; to
\* [u8; N] exactly a Str of N bytes converts, to those bytes.
C9_Get ==
    ret.op = "get" =>
        /\ ret.out.some <=> (Present /\ try_from(ret.ty, Stored).some)
        /\ ret.out.some => ret.out = try_from(ret.ty, Stored)
        /\ ret.ty.t = "array" =>
              /\ ret.out.some <=>
                    (Present /\ Stored.tag = "Str" /\ Len(Stored.s.bytes) = ret.ty.n)
              /\ ret.out.some => ret.out.v = Stored.s.bytes

\* A get of a 10-byte string as [u8; 10], which as [u8; 9] is None.
C9_Witness ==
    /\ ret.op = "get" /\ ret.ty = T_array(10) /\ ret.out.some
    /\ ret.out.v = TenBytes
    /\ ~Value_get(ret.arg, ret.key, T_array(9)).some

\* A sequence of ASCII digits, at least one.
Digits(d) == Len(d) >= 1 /\ \A j \in 1..Len(d) : d[j] \in CH_0..CH_9

\* The number that a sequence of ASCII digits writes in decimal.
RECURSIVE DecValue(_)
DecValue(d) ==
    IF d = <<>> THEN 0
    ELSE 10 * DecValue(SubSeq(d, 1, Len(d) - 1)) + (d[Len(d)] - CH_0)

\* No leading zero: the only digit sequence that starts with 0 is 0 itself.
Minimal(d) == Len(d) = 1 \/ d[1] # CH_0

\* d is the minimal decimal rendering of n.
Renders(d, n) == Digits(d) /\ Minimal(d) /\ DecValue(d) = n

\* The encoding of Int(n) read as i, sign, digits, e.
IntExact(out, n) ==
    LET s == IF n < 0 THEN 1 ELSE 0
        d == SubSeq(out, 2 + s, Len(out) - 1)
    IN  /\ Len(out) >= 3 + s
        /\ out[1] = CH_i
        /\ (n < 0) <=> (out[2] = CH_minus)
        /\ Renders(d, IF n < 0 THEN 0 - n ELSE n)
        /\ out[Len(out)] = CH_e

\* The encoding of Str(B) read as digits, colon, the bytes of B.
StrExact(out, B) ==
    LET k == Len(out) - Len(B) - 1 IN
    /\ k >= 1
    /\ Renders(SubSeq(out, 1, k), Len(B))
    /\ out[k + 1] = CH_colon
    /\ SubSeq(out, k + 2, Len(out)) = B

\* C11: the encoding of Int(n) is i, then - exactly when n < 0, then the
\* magnitude of n in decimal without a leading zero (0 is the digit 0, never
\* -0; the magnitude of the most negative integer in full), then e; the
\* encoding of Str(B) is the length of B in decimal without a leading zero,
\* then a colon, then the bytes of B as they are.
C11_Scalar ==
    ret.op = "encode" =>
        /\ ret.arg.tag = "Int" => IntExact(ret.out, ret.arg.i)
        /\ ret.arg.tag = "Str" => StrExact(ret.out, ret.arg.s.bytes)

\* Reached: the most negative integer has been encoded, sign and all digits.
C11_Witness ==
    /\ ret.op = "encode"
    /\ ret.arg = VInt(I64_MIN)
    /\ Len(ret.out) > 4
    /\ ret.out[2] = CH_minus

\* The index behind the run of ASCII digits of b that starts at j.
RECURSIVE RunEnd(_, _)
RunEnd(b, j) ==
    IF j <= Len(b) /\ b[j] \in CH_0..CH_9 THEN RunEnd(b, j + 1) ELSE j

\* b read as i, at most one -, a run of digits and e: whether it has that
\* shape, and its parts.
IntRead(b) ==
    LET s == IF Len(b) >= 2 /\ b[2] = CH_minus THEN 1 ELSE 0
        to == RunEnd(b, 2 + s)
    IN  [shape |-> /\ Len(b) >= 1 /\ b[1] = CH_i
                   /\ to > 2 + s
                   /\ to <= Len(b) /\ b[to] = CH_e,
         neg |-> s = 1,
         digits |-> SubSeq(b, 2 + s, to - 1),
         rest |-> SubSeq(b, to + 1, Len(b))]

\* C12: on i, at most one -, one or more digits and e, take_int returns the
\* decimal value of the digits, negated if - was there, leading zeros and -0
\* accepted, and leaves the bytes behind e; it returns None when there is no
\* digit, when e is missing, when the buffer does not start with i, and when
\* the value of the digits is beyond the largest signed integer.
C12_TakeInt ==
    ret.op = "take_int" =>
        LET p == IntRead(ret.buf)
            n == DecValue(p.digits)
        IN  IF p.shape /\ n <= I64_MAX
            THEN /\ ret.out = Some(IF p.neg THEN 0 - n ELSE n)
                 /\ ret.rest = p.rest
            ELSE ret.out = None

\* Reached: i-05e has been taken as -5.
C12_Witness ==
    /\ ret.op = "take_int"
    /\ ret.buf = <<CH_i, CH_minus, CH_0, CH_0 + 5, CH_e>>
    /\ ret.out = Some(-5)

\* A call of Value::decode is under way.
Running == dec.pc \in {"value", "loop"}

\* The call of Value::decode has returned.
Done == dec.pc = "done"

\* The guards of the steps: at a call of take_value, or at the loop of a
\* call of take_list or take_dict that is on the stack.
CanStep ==
    \/ dec.pc = "value"
    \/ dec.pc = "loop" /\ dec.stack # <<>> /\ Top(dec).kind \in {"list", "dict"}

\* The calls of take_value that have not returned.
Depth == Len(dec.stack) + (IF dec.pc = "value" THEN 1 ELSE 0)

\* What holds in every state of a call: while it has not returned it can
\* take a step, the depth is within the budget plus one, buffer and budget
\* are within what the call was given, the buffer at a loop's condition is
\* shorter than at its last evaluation, and the call returns what
\* Value::decode returns.
RunInv ==
    (Running \/ Done) =>
        /\ Running => CanStep
        /\ Depth <= dec.max_allocs + 1
        /\ Len(dec.buf) <= Len(input)
        /\ dec.rem_allocs \in 0..dec.max_allocs
        /\ dec.pc = "loop" => Len(dec.buf) < Top(dec).mark
        /\ Done => dec.out = Value_decode(input, dec.max_allocs)

\* What is left to do, as a natural number: nothing once the call has
\* returned, else twice the unconsumed bytes, plus two at a loop's condition
\* and plus one at a call of take_value.
Measure(d) ==
    IF d.pc = "done" THEN 0
    ELSE 2 * Len(d.buf) + (IF d.pc = "loop" THEN 2 ELSE 1)

\* What holds of every step of a call: the buffer does not grow, the budget
\* does not increase, a call of take_value that does not fail shortens the
\* buffer, and what is left to do gets less.
RunStep ==
    Running =>
        /\ Len(dec'.buf) <= Len(dec.buf)
        /\ dec'.rem_allocs <= dec.rem_allocs
        /\ (dec.pc = "value" /\ ~(dec'.pc = "done" /\ ~dec'.out.some))
               => Len(dec'.buf) < Len(dec.buf)
        /\ Measure(dec') < Measure(dec)

\* C13: every call of Value::decode returns, with Some or None, whatever the
\* input and the budget: while it has not returned it can take a step, and
\* every step lessens a natural number, so the steps end. While it runs the
\* unconsumed buffer never grows and the remaining budget never increases,
\* every call of take_value that goes on and every iteration of the loops of
\* take_list and take_dict shortens the buffer, and the calls of take_value
\* nested at any time are at most the initial budget plus one.
C13_Terminates ==
    /\ []RunInv
    /\ [][RunStep]_vars

\* Reached: with a budget of at least one, take_value calls are nested as
\* deep as the budget plus one, at the loop of the innermost list.
C13_Witness ==
    /\ dec.pc = "loop"
    /\ dec.max_allocs >= 1
    /\ Depth = dec.max_allocs + 1
    /\ dec.rem_allocs = 0

====
